---- MODULE Spec2Model ----
(***************************************************************************)
(* A model of the budget engine of src/script.py (class BudgetManager):    *)
(* the ledger of income and expense records, its write-through JSON file,  *)
(* the period filter, the summary, the spending advice and the list of     *)
(* recent transactions; and of the console planner of src/script2.py       *)
(* (class BudgetPlanner): its projections and its savings goals.  The two  *)
(* are separate programs: a behaviour takes the steps of one of them.      *)
(*                                                                         *)
(* Amounts are Python floats.  A float is modelled by the integer number   *)
(* of 2^-Frac sub-units it holds, and every arithmetic result is rounded   *)
(* to the nearest value with MantBits significant bits, ties to even, as   *)
(* IEEE-754 does with 53 bits.  Dates are "%Y-%m-%d" strings, modelled as  *)
(* sequences of character codes and compared as Python compares strings.   *)
(***************************************************************************)
EXTENDS Integers, Sequences, FiniteSets, TLC

VARIABLES
    data,        \* self.data: [income |-> Seq, expenses |-> Seq]
    categories,  \* self.categories
    file,        \* what is stored under self.filename
    today,       \* the calendar day datetime.datetime.now() falls on: <<y, m, d>>
    live,        \* whether a BudgetManager object exists (its constructor returned)
    call,        \* the last call: its operation and arguments
    ret,         \* what the last call returned, or the exception it raised
    sumIncome,   \* history: running float sum of the amounts given to add_income
    sumExpenses, \* history: running float sum of the amounts given to add_expense
    planner      \* the BudgetPlanner object of src/script2.py: its attributes

vars == <<data, categories, file, today, live, call, ret, sumIncome, sumExpenses,
          planner>>

None == "None"

(***************************************************************************)
(* Bounds of the model.                                                    *)
(***************************************************************************)
\* significand bits of the modelled float (Python's has 53)
MantBits == 3
\* most records the ledger holds, income and expenses together
MaxTx == 3
\* largest limit passed to get_transactions
MaxLimit == 2
\* most midnights that pass in a behaviour
MaxDays == 4

(***************************************************************************)
(* Float arithmetic.                                                       *)
(***************************************************************************)
RECURSIVE Pow(_, _)
Pow(b, e) == IF e = 0 THEN 1 ELSE b * Pow(b, e - 1)

Abs(n) == IF n < 0 THEN -n ELSE n

Sign(n) == IF n < 0 THEN -1 ELSE 1

\* binary digits below the point: enough to hold the float nearest to 0.1
Frac == MantBits + 3

\* 1.0 in sub-units
One == Pow(2, Frac)

\* a/b rounded to the nearest integer, ties to the even one
RoundHalfEven(a, b) ==
    LET f == a \div b
        r == a % b
    IN  IF 2 * r < b THEN f
        ELSE IF 2 * r > b THEN f + 1
        ELSE IF f % 2 = 0 THEN f ELSE f + 1

\* the spacing of the floats around n/d: the least power of two q with
\* n/d < q * 2^MantBits
RECURSIVE Quantum(_, _, _)
Quantum(n, d, q) ==
    IF n < d * q * Pow(2, MantBits) THEN q ELSE Quantum(n, d, 2 * q)

\* the float nearest to n/d sub-units (n >= 0, d > 0)
RoundRatio(n, d) ==
    LET q == Quantum(n, d, 1)
    IN  q * RoundHalfEven(n, d * q)

\* the float nearest to n sub-units
FRound(n) == Sign(n) * RoundRatio(Abs(n), 1)

\* x + y, x - y and x * y on floats
FAdd(x, y) == FRound(x + y)

FSub(x, y) == FRound(x - y)

FMul(x, y) == Sign(x * y) * RoundRatio(Abs(x * y), One)

\* the literal 0.1: the float nearest to one tenth
Tenth == RoundRatio(One, 10)

\* float(amount) of a number the caller passes
ToFloat(amount) == FRound(amount)

\* sum(item["amount"] for item in items): starts at 0 and adds left to right
RECURSIVE SumAmounts(_)
SumAmounts(items) ==
    IF items = <<>> THEN 0
    ELSE FAdd(SumAmounts(SubSeq(items, 1, Len(items) - 1)), items[Len(items)].amount)

(***************************************************************************)
(* Calendar dates and their "%Y-%m-%d" strings.                            *)
(***************************************************************************)
IsLeap(y) == (y % 4 = 0 /\ y % 100 # 0) \/ y % 400 = 0

DaysInMonth(y, m) ==
    IF m = 2 THEN (IF IsLeap(y) THEN 29 ELSE 28)
    ELSE IF m \in {4, 6, 9, 11} THEN 30 ELSE 31

RECURSIVE DaysBeforeMonth(_, _)
DaysBeforeMonth(y, m) ==
    IF m = 1 THEN 0 ELSE DaysBeforeMonth(y, m - 1) + DaysInMonth(y, m - 1)

\* date.toordinal(): day 1 is 0001-01-01
ToOrdinal(dt) ==
    LET y == dt[1] - 1
    IN  365 * y + (y \div 4) - (y \div 100) + (y \div 400)
        + DaysBeforeMonth(dt[1], dt[2]) + dt[3]

\* date.weekday(): Monday is 0
Weekday(dt) == (ToOrdinal(dt) + 6) % 7

PrevDay(dt) ==
    IF dt[3] > 1 THEN <<dt[1], dt[2], dt[3] - 1>>
    ELSE IF dt[2] > 1 THEN <<dt[1], dt[2] - 1, DaysInMonth(dt[1], dt[2] - 1)>>
    ELSE <<dt[1] - 1, 12, 31>>

NextDay(dt) ==
    IF dt[3] < DaysInMonth(dt[1], dt[2]) THEN <<dt[1], dt[2], dt[3] + 1>>
    ELSE IF dt[2] < 12 THEN <<dt[1], dt[2] + 1, 1>>
    ELSE <<dt[1] + 1, 1, 1>>

\* dt - datetime.timedelta(days=k)
RECURSIVE MinusDays(_, _)
MinusDays(dt, k) == IF k = 0 THEN dt ELSE MinusDays(PrevDay(dt), k - 1)

\* the character code of a decimal digit, and of "-"
Digit(n) == 48 + n

Dash == 45

\* dt.strftime("%Y-%m-%d")
StrFTime(dt) ==
    << Digit(dt[1] \div 1000), Digit((dt[1] \div 100) % 10),
       Digit((dt[1] \div 10) % 10), Digit(dt[1] % 10), Dash,
       Digit(dt[2] \div 10), Digit(dt[2] % 10), Dash,
       Digit(dt[3] \div 10), Digit(dt[3] % 10) >>

\* a >= b on Python strings: by the first differing character, a prefix is less
RECURSIVE StrGE(_, _)
StrGE(a, b) ==
    IF b = <<>> THEN TRUE
    ELSE IF a = <<>> THEN FALSE
    ELSE IF a[1] # b[1] THEN a[1] > b[1]
    ELSE StrGE(Tail(a), Tail(b))

StrGT(a, b) == StrGE(a, b) /\ a # b

(***************************************************************************)
(* The stored file: json.dump(self.data, file, indent=4) and json.load.    *)
(***************************************************************************)
\* the JSON text of a float: its sign and the digits of its exact decimal
\* expansion to Frac places (repr prints fewer digits that read back the same)
JsonNumber(x) == [neg |-> x < 0, digits |-> Abs(x) * Pow(5, Frac)]

\* the float a JSON number reads back as: the nearest to its decimal value
JsonParseNumber(j) ==
    (IF j.neg THEN -1 ELSE 1) * RoundRatio(j.digits, Pow(5, Frac))

\* JsonDump writing the income list alone
JsonDump_income_only(d) ==
    [income |-> [i \in 1..Len(d.income) |->
                    [amount |-> JsonNumber(d.income[i].amount),
                     source |-> d.income[i].source,
                     date |-> d.income[i].date]],
     expenses |-> <<>>]

\* the JSON document json.dump writes for the ledger d
JsonDump(d) ==
    [income |-> [i \in 1..Len(d.income) |->
                    [amount |-> JsonNumber(d.income[i].amount),
                     source |-> d.income[i].source,
                     date |-> d.income[i].date]],
     expenses |-> [i \in 1..Len(d.expenses) |->
                    [amount |-> JsonNumber(d.expenses[i].amount),
                     category |-> d.expenses[i].category,
                     description |-> d.expenses[i].description,
                     date |-> d.expenses[i].date]]]

\* the ledger json.load builds from that document
JsonLoad(doc) ==
    [income |-> [i \in 1..Len(doc.income) |->
                    [amount |-> JsonParseNumber(doc.income[i].amount),
                     source |-> doc.income[i].source,
                     date |-> doc.income[i].date]],
     expenses |-> [i \in 1..Len(doc.expenses) |->
                    [amount |-> JsonParseNumber(doc.expenses[i].amount),
                     category |-> doc.expenses[i].category,
                     description |-> doc.expenses[i].description,
                     date |-> doc.expenses[i].date]]]

EmptyLedger == [income |-> <<>>, expenses |-> <<>>]

\* what can be stored under self.filename:
\*   absent      no such file
\*   unreadable  a file that cannot be opened (a directory, no permission:
\*               OSError) or whose bytes are not text (UnicodeDecodeError)
\*   malformed   text that is not JSON (empty or cut short included)
\*   json        a JSON document written by _save_data
NoFile == [kind |-> "absent", doc |-> JsonDump(EmptyLedger)]

UnreadableFile == [kind |-> "unreadable", doc |-> JsonDump(EmptyLedger)]

MalformedFile == [kind |-> "malformed", doc |-> JsonDump(EmptyLedger)]

JsonFile(doc) == [kind |-> "json", doc |-> doc]

\* _load_data: the ledger it returns, or the exception that leaves it
_load_data(f) ==
    IF f.kind = "absent" THEN [raised |-> None, data |-> EmptyLedger]
    ELSE IF f.kind = "unreadable" THEN [raised |-> "OSError or UnicodeDecodeError", data |-> EmptyLedger]
    ELSE IF f.kind = "malformed" THEN [raised |-> None, data |-> EmptyLedger]
    ELSE [raised |-> None, data |-> JsonLoad(f.doc)]

\* _save_data catching the error of a failed write and returning normally
_save_data_swallowing(d, f, disk) ==
    IF disk = "open_fails" THEN [raised |-> None, file |-> f]
    ELSE IF disk = "write_fails" THEN [raised |-> None, file |-> MalformedFile]
    ELSE [raised |-> None, file |-> JsonFile(JsonDump(d))]

\* _save_data under the disk's answer to this write:
\*   ok           the whole ledger is written
\*   open_fails   open(filename, 'w') raises: the file is left as it was
\*   write_fails  the file is opened (and so emptied), json.dump raises
_save_data(d, f, disk) ==
    IF disk = "open_fails" THEN [raised |-> "OSError", file |-> f]
    ELSE IF disk = "write_fails" THEN [raised |-> "OSError", file |-> MalformedFile]
    ELSE [raised |-> None, file |-> JsonFile(JsonDump(d))]

(***************************************************************************)
(* BudgetManager.                                                          *)
(***************************************************************************)
DefaultCategories ==
    {"Groceries", "Housing", "Transportation", "Entertainment", "Utilities",
     "Healthcare", "Savings", "Debt", "Personal", "Miscellaneous"}

\* the date a record gets: the caller's, or today's when the caller gives none
DateOrToday(date, now) == IF date = None THEN StrFTime(now) ELSE date

\* the ledger after add_income's append
add_income(d, amount, source, date, now) ==
    [d EXCEPT !.income = Append(@, [amount |-> ToFloat(amount),
                                    source |-> source,
                                    date |-> DateOrToday(date, now)])]

\* the category set after add_expense
\* the category set rebuilt from the defaults instead of added to
add_category_from_defaults(cats, category) ==
    IF category \notin cats THEN DefaultCategories \cup {category} ELSE cats

add_category(cats, category) ==
    IF category \notin cats THEN cats \cup {category} ELSE cats

\* the ledger after add_expense's append
add_expense(d, amount, category, description, date, now) ==
    [d EXCEPT !.expenses = Append(@, [amount |-> ToFloat(amount),
                                      category |-> category,
                                      description |-> description,
                                      date |-> DateOrToday(date, now)])]

\* dt + datetime.timedelta(days=k)
RECURSIVE PlusDays(_, _)
PlusDays(dt, k) == IF k = 0 THEN dt ELSE PlusDays(NextDay(dt), k - 1)

\* start_date with the week's offset added instead of subtracted
start_date_week_ahead(period, now) ==
    IF period = "day" THEN StrFTime(now)
    ELSE IF period = "week" THEN StrFTime(PlusDays(now, Weekday(now)))
    ELSE IF period = "month" THEN StrFTime(<<now[1], now[2], 1>>)
    ELSE StrFTime(<<now[1], 1, 1>>)

\* the start date of a period, as the string the items' dates are compared to
start_date(period, now) ==
    IF period = "day" THEN StrFTime(now)
    ELSE IF period = "week" THEN StrFTime(MinusDays(now, Weekday(now)))
    ELSE IF period = "month" THEN StrFTime(<<now[1], now[2], 1>>)
    ELSE StrFTime(<<now[1], 1, 1>>)

KeepFrom(items, start) == SelectSeq(items, LAMBDA item : StrGE(item.date, start))

_filter_by_period(items, period, now) ==
    IF period = None THEN items
    ELSE IF period \in {"day", "week", "month", "year"}
         THEN KeepFrom(items, start_date(period, now))
    ELSE items

\* the keys of expenses_by_category, in the order the loop first meets them
RECURSIVE CategoryOrder(_)
CategoryOrder(expenses) ==
    IF expenses = <<>> THEN <<>>
    ELSE LET before == CategoryOrder(SubSeq(expenses, 1, Len(expenses) - 1))
             c == expenses[Len(expenses)].category
         IN  IF \E i \in 1..Len(before) : before[i] = c THEN before
             ELSE Append(before, c)

\* expenses_by_category: each key's amounts added to 0.0 in ledger order
ByCategory(expenses) ==
    [c \in {expenses[i].category : i \in 1..Len(expenses)} |->
        SumAmounts(SelectSeq(expenses, LAMBDA e : e.category = c))]

\* get_summary with a copied line: total_income summed over the expenses
get_summary_copied_line(d, period, now) ==
    LET income == _filter_by_period(d.income, period, now)
        expenses == _filter_by_period(d.expenses, period, now)
        total_income == SumAmounts(expenses)
        total_expenses == SumAmounts(expenses)
    IN  [total_income |-> total_income,
         total_expenses |-> total_expenses,
         balance |-> FSub(total_income, total_expenses),
         expenses_by_category |-> ByCategory(expenses),
         category_order |-> CategoryOrder(expenses)]


get_summary(d, period, now) ==
    LET income == _filter_by_period(d.income, period, now)
        expenses == _filter_by_period(d.expenses, period, now)
        total_income == SumAmounts(income)
        total_expenses == SumAmounts(expenses)
    IN  [total_income |-> total_income,
         total_expenses |-> total_expenses,
         balance |-> FSub(total_income, total_expenses),
         expenses_by_category |-> ByCategory(expenses),
         category_order |-> CategoryOrder(expenses)]

\* sum(expenses_by_category.values()): the values added in key order
RECURSIVE SumValues(_, _)
SumValues(by_category, order) ==
    IF order = <<>> THEN 0
    ELSE FAdd(SumValues(by_category, SubSeq(order, 1, Len(order) - 1)),
              by_category[order[Len(order)]])

\* sorted(items, key=value, reverse=True)[0][0]: the first key, in key order,
\* that holds the largest value
top_category(by_category, order) ==
    LET best == CHOOSE i \in 1..Len(order) :
                    /\ \A j \in 1..Len(order) : by_category[order[j]] <= by_category[order[i]]
                    /\ \A j \in 1..(i - 1) : by_category[order[j]] < by_category[order[i]]
    IN  order[best]

WarningMsg == <<"Warning: You're spending more than you earn!">>

CutBackMsg(c) == <<"Consider cutting back on ", c, ", your highest expense category.">>

SavingsMsg == <<"Try to save at least 10% of your income.">>

GoodMsg == <<"Your budget looks good!">>

\* summary["expenses_by_category"].get("Savings", 0)
savings_of(summary) ==
    IF "Savings" \in DOMAIN summary.expenses_by_category
    THEN summary.expenses_by_category["Savings"]
    ELSE 0

\* the first rule of get_spending_advice: the messages it appends
overspending_advice(summary) ==
    IF summary.balance < 0
    THEN <<WarningMsg>> \o
         (IF summary.category_order # <<>>
          THEN <<CutBackMsg(top_category(summary.expenses_by_category,
                                         summary.category_order))>>
          ELSE <<>>)
    ELSE <<>>

\* savings_advice comparing with <= instead of <
savings_advice_or_equal(summary) ==
    IF savings_of(summary) <= FMul(summary.total_income, Tenth)
    THEN <<SavingsMsg>>
    ELSE <<>>

\* the second rule: savings < summary["total_income"] * 0.1
savings_advice(summary) ==
    IF savings_of(summary) < FMul(summary.total_income, Tenth)
    THEN <<SavingsMsg>>
    ELSE <<>>

\* get_spending_advice with the savings rule under an elif of the first rule
get_spending_advice_elif(d, now) ==
    LET summary == get_summary(d, None, now)
        advice == IF summary.balance < 0 THEN overspending_advice(summary)
                  ELSE savings_advice(summary)
    IN  IF advice # <<>> THEN advice ELSE <<GoodMsg>>


get_spending_advice(d, now) ==
    LET summary == get_summary(d, None, now)
        advice == overspending_advice(summary) \o savings_advice(summary)
    IN  IF advice # <<>> THEN advice ELSE <<GoodMsg>>

\* sorted(items, key=lambda x: x["date"], reverse=True): stable, so records
\* of one date keep the order they had
RECURSIVE SortedByDateDesc(_)
SortedByDateDesc(items) ==
    IF items = <<>> THEN <<>>
    ELSE LET rest == SortedByDateDesc(SubSeq(items, 1, Len(items) - 1))
             x == items[Len(items)]
             k == Cardinality({i \in 1..Len(rest) : StrGE(rest[i].date, x.date)})
         IN  SubSeq(rest, 1, k) \o <<x>> \o SubSeq(rest, k + 1, Len(rest))

\* items[:limit] for limit >= 0
Take(items, limit) ==
    SubSeq(items, 1, IF limit < Len(items) THEN limit ELSE Len(items))

IncomeRow(item) ==
    [type |-> "Income", date |-> item.date, amount |-> item.amount,
     category |-> item.source, description |-> item.source]

ExpenseRow(item) ==
    [type |-> "Expense", date |-> item.date, amount |-> item.amount,
     category |-> item.category, description |-> item.description]

\* recent_income cutting the list to limit before it is sorted
recent_income_cut_first(items, limit) ==
    LET top == SortedByDateDesc(Take(items, limit))
    IN  [i \in 1..Len(top) |-> IncomeRow(top[i])]

\* the rows get_transactions takes from each list: the limit most recent
recent_income(items, limit) ==
    LET top == Take(SortedByDateDesc(items), limit)
    IN  [i \in 1..Len(top) |-> IncomeRow(top[i])]

recent_expenses(items, limit) ==
    LET top == Take(SortedByDateDesc(items), limit)
    IN  [i \in 1..Len(top) |-> ExpenseRow(top[i])]

get_transactions(d, transaction_type, limit) ==
    LET incomes == IF transaction_type \in {"income", "all"}
                   THEN recent_income(d.income, limit) ELSE <<>>
        expenses == IF transaction_type \in {"expenses", "all"}
                    THEN recent_expenses(d.expenses, limit) ELSE <<>>
    IN  Take(SortedByDateDesc(incomes \o expenses), limit)

(***************************************************************************)
(* BudgetPlanner (src/script2.py): console text, float division and power, *)
(* the two calculations and the bodies of the menu's handlers.             *)
(***************************************************************************)
\* most years typed for a projection or a goal
MaxYears == 3

\* the attributes BudgetPlanner.__init__ sets
BudgetPlanner__init__ ==
    [income |-> 0, expenses |-> <<>>, savings |-> <<>>, investments |-> <<>>,
     savings_goals |-> <<>>]

\* a line typed at the console is a sequence of character codes
IsSpace(c) == c \in {9, 10, 11, 12, 13, 32}

\* str.strip()
RECURSIVE LStrip(_)
LStrip(line) ==
    IF line # <<>> /\ IsSpace(Head(line)) THEN LStrip(Tail(line)) ELSE line

RECURSIVE RStrip(_)
RStrip(line) ==
    IF line # <<>> /\ IsSpace(line[Len(line)])
    THEN RStrip(SubSeq(line, 1, Len(line) - 1)) ELSE line

Strip(line) == RStrip(LStrip(line))

\* str.lower()
Lower(line) ==
    [i \in 1..Len(line) |-> IF line[i] \in 65..90 THEN line[i] + 32 ELSE line[i]]

\* the text of the number n typed at a prompt, and a text that float() and
\* int() reject with ValueError
Typed(n) == <<n>>

NotANumber == <<>>

\* the text 'done'
Done == <<100, 111, 110, 101>>

\* x / y on floats, y not zero
FDiv(x, y) == Sign(x) * Sign(y) * RoundRatio(Abs(x) * One, Abs(y))

\* the largest float: a power that passes it raises OverflowError
MaxFloat == Pow(2, 2 * MantBits + 4) * One

\* x ** n of the C library for x > 0 and n > 0: the power is worked out with
\* more digits than a float holds (here to a sub-unit) and rounded once at
\* the end; a value above MaxFloat stands for a result out of range
RECURSIVE PowWide(_, _)
PowWide(x, n) ==
    IF n = 0 THEN One
    ELSE LET p == PowWide(x, n - 1)
         IN  IF p > MaxFloat THEN p ELSE RoundHalfEven(p * x, One)

\* float ** int for an exponent n >= 0: x ** 0 is 1.0, 0.0 ** n is 0.0,
\* (+-1.0) ** n is +-1.0, a negative base gives the sign of an odd power
float_pow(x, n) ==
    LET negate == x < 0 /\ n % 2 = 1
        wide == PowWide(Abs(x), n)
    IN  IF n = 0 THEN [raised |-> None, value |-> One]
        ELSE IF x = 0 THEN [raised |-> None, value |-> 0]
        ELSE IF Abs(x) = One
             THEN [raised |-> None, value |-> IF negate THEN 0 - One ELSE One]
        ELSE IF wide > MaxFloat THEN [raised |-> "OverflowError", value |-> 0]
        ELSE [raised |-> None,
              value |-> IF negate THEN 0 - FRound(wide) ELSE FRound(wide)]

\* principal * (annual_rate ** years): the 1 + left out
calculate_investment_growth_rate_only(principal, annual_rate, years) ==
    LET power == float_pow(annual_rate, years)
    IN  IF power.raised # None THEN power
        ELSE [raised |-> None, value |-> FMul(principal, power.value)]

calculate_investment_growth(principal, annual_rate, years) ==
    LET power == float_pow(FAdd(One, annual_rate), years)
    IN  IF power.raised # None THEN power
        ELSE [raised |-> None, value |-> FMul(principal, power.value)]

calculate_required_monthly_investment(target_amount, years, annual_rate) ==
    LET monthly_rate == FDiv(annual_rate, ToFloat(12 * One))
        total_periods == years * 12
        power == float_pow(FAdd(One, monthly_rate), total_periods)
        series == FDiv(FSub(power.value, One), monthly_rate)
    IN  IF monthly_rate = 0
        THEN IF years * 12 = 0
             THEN [raised |-> "ZeroDivisionError", value |-> 0]
             ELSE [raised |-> None,
                   value |-> FDiv(target_amount, ToFloat(years * 12 * One))]
        ELSE IF power.raised # None THEN power
        ELSE IF series = 0 THEN [raised |-> "ZeroDivisionError", value |-> 0]
        ELSE [raised |-> None, value |-> FDiv(target_amount, series)]

\* a dict is the sequence of its entries [key, value] in insertion order
Keys(dict) == {dict[i].key : i \in 1..Len(dict)}

\* dict[key]
GetItem(dict, key) ==
    dict[CHOOSE i \in 1..Len(dict) : dict[i].key = key].value

\* dict = {key: value}: the dict made anew instead of added to
SetItem_new_dict(dict, key, value) == <<[key |-> key, value |-> value]>>

\* dict[key] = value: a stored key keeps its place and takes the new value
SetItem(dict, key, value) ==
    IF key \in Keys(dict)
    THEN [i \in 1..Len(dict) |->
             IF dict[i].key = key THEN [key |-> key, value |-> value] ELSE dict[i]]
    ELSE Append(dict, [key |-> key, value |-> value])

\* sum(dict.values()): starts at 0 and adds in insertion order
RECURSIVE SumDictValues(_)
SumDictValues(dict) ==
    IF dict = <<>> THEN 0
    ELSE FAdd(SumDictValues(SubSeq(dict, 1, Len(dict) - 1)), dict[Len(dict)].value)

\* one goal typed into add_savings_goal: the name line and one pass through
\* the inner try, each value as the text typed for it.  The outcome is
\*   done    the name was 'done': the handler returns
\*   again   a value was rejected: the handler asks for the values again
\*   stored  the goal was stored and shown
\*   raised  an exception other than ValueError left the handler
add_savings_goal(goals, line, target_amount, years_text, annual_rate) ==
    LET goal_name == Strip(line)
        target == ToFloat(target_amount[1])
        years == years_text[1]
        rate == ToFloat(annual_rate[1])
        monthly == calculate_required_monthly_investment(target, years, rate)
        goal == [target_amount |-> target, years |-> years, annual_rate |-> rate,
                 monthly_investment_required |-> monthly.value]
        projected == calculate_investment_growth(
                         FMul(monthly.value, ToFloat(12 * One)), rate, years)
    IN  IF Lower(goal_name) = Done
        THEN [outcome |-> "done", raised |-> None, savings_goals |-> goals]
        ELSE IF NotANumber \in {target_amount, years_text, annual_rate}
        THEN [outcome |-> "again", raised |-> None, savings_goals |-> goals]
        ELSE IF target <= 0 \/ years <= 0
        THEN [outcome |-> "again", raised |-> None, savings_goals |-> goals]
        ELSE IF monthly.raised # None
        THEN [outcome |-> "raised", raised |-> monthly.raised,
              savings_goals |-> goals]
        ELSE IF projected.raised # None
        THEN [outcome |-> "raised", raised |-> projected.raised,
              savings_goals |-> SetItem(goals, goal_name, goal)]
        ELSE [outcome |-> "stored", raised |-> None,
              savings_goals |-> SetItem(goals, goal_name, goal)]

(***************************************************************************)
(* The calls, as steps of the state machine.                               *)
(***************************************************************************)
Returned(value) == [status |-> "ok", value |-> value]

Raised(exception) == [status |-> "raise", value |-> exception]

Room == Len(data.income) + Len(data.expenses) < MaxTx

\* BudgetManager(filename): __init__ loads the file and sets the categories
__init__ ==
    LET loaded == _load_data(file)
    IN  /\ call' = [op |-> "__init__"]
        /\ live' = (loaded.raised = None)
        /\ ret' = IF loaded.raised # None THEN Raised(loaded.raised) ELSE Returned(None)
        /\ data' = loaded.data
        /\ categories' = DefaultCategories
        /\ sumIncome' = SumAmounts(loaded.data.income)
        /\ sumExpenses' = SumAmounts(loaded.data.expenses)
        /\ UNCHANGED <<file, today, planner>>

Call_add_income(amount, source, date, disk) ==
    LET after == add_income(data, amount, source, date, today)
        saved == _save_data(after, file, disk)
    IN  /\ live
        /\ Room
        /\ call' = [op |-> "add_income", amount |-> amount, disk |-> disk]
        /\ data' = after
        /\ file' = saved.file
        /\ ret' = IF saved.raised # None THEN Raised(saved.raised) ELSE Returned(TRUE)
        /\ sumIncome' = FAdd(sumIncome, ToFloat(amount))
        /\ UNCHANGED <<categories, today, live, sumExpenses, planner>>

Call_add_expense(amount, category, description, date, disk) ==
    LET after == add_expense(data, amount, category, description, date, today)
        saved == _save_data(after, file, disk)
    IN  /\ live
        /\ Room
        /\ call' = [op |-> "add_expense", amount |-> amount, disk |-> disk,
                    category |-> category]
        /\ categories' = add_category(categories, category)
        /\ data' = after
        /\ file' = saved.file
        /\ ret' = IF saved.raised # None THEN Raised(saved.raised) ELSE Returned(TRUE)
        /\ sumExpenses' = FAdd(sumExpenses, ToFloat(amount))
        /\ UNCHANGED <<today, live, sumIncome, planner>>

Call_get_summary(period) ==
    /\ live
    /\ call' = [op |-> "get_summary", period |-> period]
    /\ ret' = Returned(get_summary(data, period, today))
    /\ UNCHANGED <<data, categories, file, today, live, sumIncome, sumExpenses, planner>>

Call_get_spending_advice ==
    /\ live
    /\ call' = [op |-> "get_spending_advice"]
    /\ ret' = Returned(get_spending_advice(data, today))
    /\ UNCHANGED <<data, categories, file, today, live, sumIncome, sumExpenses, planner>>

\* get_transactions sorting self.data's lists in place (list.sort)
Call_get_transactions_in_place(transaction_type, limit) ==
    /\ live
    /\ call' = [op |-> "get_transactions", transaction_type |-> transaction_type,
                limit |-> limit]
    /\ ret' = Returned(get_transactions(data, transaction_type, limit))
    /\ data' = [income |-> SortedByDateDesc(data.income),
                expenses |-> SortedByDateDesc(data.expenses)]
    /\ UNCHANGED <<categories, file, today, live, sumIncome, sumExpenses, planner>>


Call_get_transactions(transaction_type, limit) ==
    /\ live
    /\ call' = [op |-> "get_transactions", transaction_type |-> transaction_type,
                limit |-> limit]
    /\ ret' = Returned(get_transactions(data, transaction_type, limit))
    /\ UNCHANGED <<data, categories, file, today, live, sumIncome, sumExpenses, planner>>

\* the first day of a behaviour: a Sunday, two days before the new year
FirstDay == <<2024, 12, 29>>

\* midnight passes
Midnight ==
    /\ ToOrdinal(today) - ToOrdinal(FirstDay) < MaxDays
    /\ today' = NextDay(today)
    /\ UNCHANGED <<data, categories, file, live, call, ret, sumIncome, sumExpenses, planner>>

(***************************************************************************)
(* The planner's menu: one step per line, or group of lines, a handler     *)
(* reads.                                                                  *)
(***************************************************************************)
managerVars == <<data, categories, file, today, live, sumIncome, sumExpenses>>

\* add_income: one line typed at its prompt
Menu_add_income(text) ==
    /\ call' = [op |-> "add_income", text |-> text]
    /\ planner' = IF text = NotANumber THEN planner
                  ELSE [planner EXCEPT !.income = ToFloat(text[1])]
    /\ ret' = IF text # NotANumber /\ ToFloat(text[1]) > 0
              THEN Returned(None) ELSE Returned("again")
    /\ UNCHANGED managerVars

\* add_expenses: a category line and one line typed for its amount
Menu_add_expenses(line, text) ==
    LET category == Strip(line)
        stored == Lower(category) # Done /\ text # NotANumber /\ ToFloat(text[1]) >= 0
    IN  /\ call' = [op |-> "add_expenses", category |-> category, text |-> text]
        /\ planner' = IF stored
                      THEN [planner EXCEPT
                               !.expenses = SetItem(@, category, ToFloat(text[1]))]
                      ELSE planner
        /\ ret' = IF Lower(category) = Done THEN Returned(None)
                  ELSE IF stored THEN Returned("stored") ELSE Returned("again")
        /\ UNCHANGED managerVars

\* investment_projection: the three values typed, the future value shown
\* (years typed are 0 or more: the exponents float_pow covers)
Menu_investment_projection(principal, annual_rate, years) ==
    LET future_value == calculate_investment_growth(
                            ToFloat(principal[1]), ToFloat(annual_rate[1]), years[1])
    IN  /\ years # NotANumber => years[1] >= 0
        /\ IF NotANumber \in {principal, annual_rate, years}
           THEN /\ call' = [op |-> "investment_projection", parsed |-> FALSE]
                /\ ret' = Returned("again")
           ELSE /\ call' = [op |-> "investment_projection", parsed |-> TRUE,
                            principal |-> ToFloat(principal[1]),
                            annual_rate |-> ToFloat(annual_rate[1]),
                            years |-> years[1]]
                /\ ret' = IF future_value.raised # None
                          THEN Raised(future_value.raised)
                          ELSE Returned(future_value.value)
        /\ UNCHANGED <<planner, managerVars>>

\* budget_summary: the totals shown
Menu_budget_summary ==
    LET total_expenses == SumDictValues(planner.expenses)
    IN  /\ call' = [op |-> "budget_summary"]
        /\ ret' = Returned([total_expenses |-> total_expenses,
                            remaining |-> FSub(planner.income, total_expenses)])
        /\ UNCHANGED <<planner, managerVars>>

\* add_savings_goal: one goal typed
Menu_add_savings_goal(line, target_amount, years, annual_rate) ==
    LET done == add_savings_goal(planner.savings_goals, line, target_amount,
                                 years, annual_rate)
    IN  /\ call' = [op |-> "add_savings_goal", goal_name |-> Strip(line),
                    target_amount |-> target_amount, years |-> years,
                    annual_rate |-> annual_rate]
        /\ planner' = [planner EXCEPT !.savings_goals = done.savings_goals]
        /\ ret' = IF done.raised # None THEN Raised(done.raised)
                  ELSE Returned(done.outcome)
        /\ UNCHANGED managerVars

\* view_savings_goals: the goals shown, or the line shown when there is none
Menu_view_savings_goals ==
    /\ call' = [op |-> "view_savings_goals"]
    /\ ret' = IF planner.savings_goals = <<>>
              THEN Returned("No savings goals have been set.")
              ELSE Returned(planner.savings_goals)
    /\ UNCHANGED <<planner, managerVars>>

(***************************************************************************)
(* Specifications.  Each starts right after BudgetManager(filename) ran on *)
(* a stored file, and offers the calls with the inputs its claims need.    *)
(***************************************************************************)
\* the state BudgetManager(filename) leaves when the file holds f
Constructed(f) ==
    LET loaded == _load_data(f)
    IN  /\ file = f
        /\ today = FirstDay
        /\ call = [op |-> "__init__"]
        /\ live = (loaded.raised = None)
        /\ ret = IF loaded.raised # None THEN Raised(loaded.raised) ELSE Returned(None)
        /\ data = loaded.data
        /\ categories = DefaultCategories
        /\ sumIncome = SumAmounts(loaded.data.income)
        /\ sumExpenses = SumAmounts(loaded.data.expenses)
        /\ planner = BudgetPlanner__init__

\* the largest amount: one more sub-unit than the significand holds
Big == Pow(2, MantBits) * One

\* a date the caller gives: earlier in the first day's month
OldDate == StrFTime(<<2024, 12, 1>>)

Periods == {None, "day", "week", "month", "year", "all"}

TypeFilters == {"all", "income", "expenses"}

DiskAnswers == {"ok", "open_fails", "write_fails"}

\* persistence: every answer of the disk, restarts on the stored file
Init == \E f \in {NoFile, MalformedFile, UnreadableFile} : Constructed(f)

Next ==
    \/ \E d \in {None, OldDate}, disk \in DiskAnswers :
          Call_add_income(One, "Salary", d, disk)
    \/ \E c \in {"Savings", "Pets", "Travel"}, disk \in DiskAnswers :
          Call_add_expense(One, c, "note", None, disk)
    \/ \E p \in {None, "month"} : Call_get_summary(p)
    \/ Call_get_spending_advice
    \/ \E l \in {0, MaxLimit} : Call_get_transactions("all", l)
    \/ __init__

Spec == Init /\ [][Next]_vars

\* totals: amounts that round, two categories, incomes of two dates
InitTotals == Constructed(NoFile)

NextTotals ==
    \/ \E a \in {One, Big}, d \in {None, OldDate} :
          Call_add_income(a, "Salary", d, "ok")
    \/ \E a \in {One, Big}, c \in {"Groceries", "Housing"} :
          Call_add_expense(a, c, "note", None, "ok")
    \/ \E p \in Periods : Call_get_summary(p)

SpecTotals == InitTotals /\ [][NextTotals]_vars

\* advice: amounts of either sign and zero, with and without Savings
InitAdvice == Constructed(NoFile)

NextAdvice ==
    \/ \E a \in {0, One, Big} : Call_add_income(a, "Salary", None, "ok")
    \/ \E a \in {0 - One, 0, One, Big}, c \in {"Savings", "Groceries"} :
          Call_add_expense(a, c, "note", None, "ok")
    \/ Call_get_spending_advice

SpecAdvice == InitAdvice /\ [][NextAdvice]_vars

\* periods: the days around a new year, records dated today or new year's eve
NewYearsEve == StrFTime(<<2024, 12, 31>>)

InitPeriod == Constructed(NoFile)

NextPeriod ==
    \/ Call_add_income(One, "Salary", None, "ok")
    \/ \E d \in {None, NewYearsEve} : Call_add_expense(One, "Groceries", "note", d, "ok")
    \/ \E p \in Periods : Call_get_summary(p)
    \/ Midnight

SpecPeriod == InitPeriod /\ [][NextPeriod]_vars

\* recent transactions: three dates, every type filter, limits from 0
RecentDates == {StrFTime(<<2024, 12, 28>>), StrFTime(<<2024, 12, 29>>), StrFTime(<<2025, 1, 2>>)}

InitRecent == Constructed(NoFile)

NextRecent ==
    \/ \E d \in RecentDates : Call_add_income(One, "Salary", d, "ok")
    \/ \E d \in RecentDates : Call_add_expense(One, "Groceries", "note", d, "ok")
    \/ \E t \in TypeFilters, l \in 0..MaxLimit : Call_get_transactions(t, l)

SpecRecent == InitRecent /\ [][NextRecent]_vars

\* the planner: goals typed under two names, one of them also padded, with
\* values that are stored, rejected, or make the calculation raise, between
\* the menu's other entries
Car == <<99, 97, 114>>

CarPadded == <<32, 99, 97, 114, 32>>

Boat == <<98, 111, 97, 116>>

DoneLine == <<68, 111, 110, 101>>

Food == <<102, 111, 111, 100>>

\* target_amount, years and annual_rate as typed for one goal: two that are
\* stored
StoredForms ==
    { <<Typed(One), Typed(1), Typed(0)>>,
      <<Typed(Big), Typed(1), Typed(3 * One)>> }

\* one whose power overflows, one whose series is 0, one whose projection
\* overflows after the goal was stored, two that are rejected
GoalForms ==
    StoredForms \cup
    { <<Typed(Big), Typed(MaxYears), Typed(3 * One)>>,
      <<Typed(One), Typed(1), Typed(0 - 24 * One)>>,
      <<Typed(Big), Typed(MaxYears), Typed(0 - 14 * One)>>,
      <<NotANumber, Typed(1), Typed(0)>>,
      <<Typed(One), Typed(0), Typed(0)>> }

InitPlanner == Constructed(NoFile)

NextPlanner ==
    \/ \E t \in {NotANumber, Typed(0), Typed(One)} : Menu_add_income(t)
    \/ \E t \in {NotANumber, Typed(0 - One), Typed(One)} : Menu_add_expenses(Food, t)
    \/ Menu_add_expenses(DoneLine, NotANumber)
    \/ \E P \in {NotANumber, Typed(5)} :
          Menu_investment_projection(P, Typed(3 * One), Typed(1))
    \/ Menu_budget_summary
    \/ \E l \in {Car, Boat}, g \in GoalForms :
          Menu_add_savings_goal(l, g[1], g[2], g[3])
    \/ \E g \in StoredForms : Menu_add_savings_goal(CarPadded, g[1], g[2], g[3])
    \/ Menu_add_savings_goal(DoneLine, NotANumber, NotANumber, NotANumber)
    \/ Menu_view_savings_goals

SpecPlanner == InitPlanner /\ [][NextPlanner]_vars

\* the projection alone: principals that are floats and that round to one,
\* rates of either sign, zero and minus one, 0 to MaxYears years
Principals == {Typed(p) : p \in {0 - One, 0, 5, One + 1, 3 * One, Big + One}}

Rates == {Typed(r) : r \in {0 - 14 * One, 0 - One, 0, Tenth, 3 * One}}

InitGrowth == Constructed(NoFile)

NextGrowth ==
    \/ \E P \in Principals, r \in Rates, Y \in {Typed(y) : y \in 0..MaxYears} :
          Menu_investment_projection(P, r, Y)
    \/ \E P \in Principals, r \in Rates :
          Menu_investment_projection(P, r, NotANumber)

SpecGrowth == InitGrowth /\ [][NextGrowth]_vars

(***************************************************************************)
(* Properties.                                                             *)
(***************************************************************************)
\* how many times x occurs in the sequence seq
Count(x, seq) == Cardinality({i \in 1..Len(seq) : seq[i] = x})

\* every record of sub occurs in sup at least as often
Within(sub, sup) == \A i \in 1..Len(sub) : Count(sub[i], sub) <= Count(sub[i], sup)

Member(x, seq) == \E i \in 1..Len(seq) : seq[i] = x

AllAmountsNonNegative ==
    /\ \A i \in 1..Len(data.income) : data.income[i].amount >= 0
    /\ \A i \in 1..Len(data.expenses) : data.expenses[i].amount >= 0

\* C1: whatever add_income and add_expense calls were made, in whatever
\* order, get_summary(None) returns as total_income the sum of the amounts
\* given to add_income and as total_expenses the sum of the amounts given to
\* add_expense (float sums, each taken in the order of the calls).
C1_TotalsAreSums ==
    (call.op = "get_summary" /\ call.period = None) =>
        /\ ret.value.total_income = sumIncome
        /\ ret.value.total_expenses = sumExpenses

C1_Witness ==
    /\ call.op = "get_summary" /\ call.period = None
    /\ Len(data.income) = 2 /\ Len(data.expenses) = 1
    /\ data.income[1].date # data.income[2].date
    /\ ret.value.total_income > ret.value.total_expenses
    /\ ret.value.total_expenses > 0

\* C2: in every summary get_summary returns, for every period, the values of
\* expenses_by_category add up to exactly total_expenses.
C2_CategoriesAddUp ==
    call.op = "get_summary" =>
        SumValues(ret.value.expenses_by_category, ret.value.category_order)
            = ret.value.total_expenses

\* the records of a list the period filter keeps today
Kept(items, period) == _filter_by_period(items, period, today)

NestedIn(items) ==
    /\ Within(Kept(items, "day"), Kept(items, "week"))
    /\ Within(Kept(items, "week"), Kept(items, "month"))
    /\ Within(Kept(items, "month"), Kept(items, "year"))
    /\ Within(Kept(items, "year"), Kept(items, None))

\* C3, as the specification states it: the records the period filter keeps
\* are nested, day within week within month within year within no period.
C3_FullyNested == NestedIn(data.income) /\ NestedIn(data.expenses)

\* the Monday the current week starts on
WeekStart == MinusDays(today, Weekday(today))

NestedWhereItHolds(items) ==
    /\ Within(Kept(items, "day"), Kept(items, "week"))
    /\ Within(Kept(items, "week"), Kept(items, None))
    /\ Within(Kept(items, "day"), Kept(items, "month"))
    /\ Within(Kept(items, "month"), Kept(items, "year"))
    /\ Within(Kept(items, "year"), Kept(items, None))
    /\ (WeekStart[1] = today[1] /\ WeekStart[2] = today[2]) =>
           Within(Kept(items, "week"), Kept(items, "month"))
    /\ WeekStart[1] = today[1] =>
           Within(Kept(items, "week"), Kept(items, "year"))

\* C3: for any ledger and current date, the records kept for day are among
\* those kept for week and among those kept for month, those for month among
\* those for year, those for week and for year among those for no period;
\* those for week are among those for month (for year) when the Monday the
\* week starts on lies in the current month (year).
C3_NestedPeriods == NestedWhereItHolds(data.income) /\ NestedWhereItHolds(data.expenses)

C3_Witness ==
    /\ today = <<2025, 1, 1>>
    /\ call.op = "get_summary"
    /\ Len(Kept(data.expenses, "day")) = 1
    /\ Len(Kept(data.expenses, "week")) = 2
    /\ Len(Kept(data.expenses, "month")) = 1
    /\ Len(Kept(data.expenses, None)) = 3

\* C4: get_spending_advice returns a non-empty list; the overspending
\* warning is in it exactly when balance < 0; the savings recommendation is
\* in it exactly when the amount under "Savings" (0 if absent) is less than
\* total_income * 0.1, whether or not the warning is; the "budget looks good"
\* message is in it exactly when neither is, and is then the only message.
C4_AdviceRules ==
    call.op = "get_spending_advice" =>
        LET summary == get_summary(data, None, today)
            advice == ret.value
            overspent == summary.balance < 0
            savings == IF "Savings" \in DOMAIN summary.expenses_by_category
                       THEN summary.expenses_by_category["Savings"] ELSE 0
            saves_little == savings < FMul(summary.total_income, Tenth)
        IN  /\ advice # <<>>
            /\ Member(WarningMsg, advice) <=> overspent
            /\ Member(SavingsMsg, advice) <=> saves_little
            /\ Member(GoodMsg, advice) <=> (~overspent /\ ~saves_little)
            /\ Member(GoodMsg, advice) => advice = <<GoodMsg>>

C4_Witness ==
    /\ call.op = "get_spending_advice"
    /\ Member(WarningMsg, ret.value)
    /\ Member(SavingsMsg, ret.value)
    /\ Len(ret.value) = 3
    /\ Len(data.income) >= 1

\* C5, as the specification states it: with total_income 0 and no negative
\* amount recorded, the advice always includes the savings recommendation.
C5_SavingsRuleFires ==
    (/\ call.op = "get_spending_advice"
     /\ get_summary(data, None, today).total_income = 0
     /\ AllAmountsNonNegative)
        => Member(SavingsMsg, ret.value)

\* C5: with total_income 0 and no negative amount recorded, the advice never
\* includes the savings recommendation.
C5_SavingsRuleSilent ==
    (/\ call.op = "get_spending_advice"
     /\ get_summary(data, None, today).total_income = 0
     /\ AllAmountsNonNegative)
        => ~Member(SavingsMsg, ret.value)

C5_Witness ==
    /\ call.op = "get_spending_advice"
    /\ get_summary(data, None, today).total_income = 0
    /\ AllAmountsNonNegative
    /\ Len(data.income) >= 1
    /\ \E i \in 1..Len(data.expenses) : data.expenses[i].category = "Savings"
    /\ ret.value = <<GoodMsg>>

\* the rows of the ledger a type filter selects
SelectedRows(transaction_type) ==
    (IF transaction_type \in {"income", "all"}
     THEN [i \in 1..Len(data.income) |-> IncomeRow(data.income[i])] ELSE <<>>)
    \o
    (IF transaction_type \in {"expenses", "all"}
     THEN [i \in 1..Len(data.expenses) |-> ExpenseRow(data.expenses[i])] ELSE <<>>)

\* C6: for a type filter among all, income and expenses and a limit >= 0,
\* get_transactions returns rows of the selected types only, each a selected
\* transaction, ordered by date non-increasing, min(limit, number selected)
\* of them, and no selected transaction left out has a date strictly later
\* than a returned one.
C6_RecentTransactions ==
    call.op = "get_transactions" =>
        LET rows == ret.value
            selected == SelectedRows(call.transaction_type)
            wanted == IF call.limit < Len(selected) THEN call.limit ELSE Len(selected)
        IN  /\ \A i \in 1..Len(rows) :
                  /\ call.transaction_type = "income" => rows[i].type = "Income"
                  /\ call.transaction_type = "expenses" => rows[i].type = "Expense"
            /\ Within(rows, selected)
            /\ \A i \in 1..Len(rows), j \in 1..Len(rows) :
                  i < j => StrGE(rows[i].date, rows[j].date)
            /\ Len(rows) = wanted
            /\ \A k \in 1..Len(selected) :
                  Count(selected[k], selected) > Count(selected[k], rows) =>
                      \A i \in 1..Len(rows) : ~StrGT(selected[k].date, rows[i].date)

C6_Witness ==
    /\ call.op = "get_transactions" /\ call.transaction_type = "all"
    /\ call.limit >= 1
    /\ Len(data.income) > call.limit
    /\ Len(data.expenses) >= 1
    /\ Len(ret.value) = call.limit
    /\ StrGT(data.income[Len(data.income)].date, data.income[1].date)
    /\ \E i \in 1..Len(ret.value) : ret.value[i].type = "Expense"

IsPrefix(old, new) ==
    /\ Len(old) <= Len(new)
    /\ SubSeq(new, 1, Len(old)) = old

\* C7: a call of add_income appends exactly one record to the income
\* sequence and leaves the expense sequence as it is; a call of add_expense
\* appends exactly one record to the expense sequence and leaves the income
\* sequence as it is; get_summary, get_spending_advice and get_transactions
\* leave both as they are: on one BudgetManager no call changes, reorders or
\* removes a recorded transaction.
C7_AppendOnly ==
    [][ /\ call'.op = "add_income" =>
              /\ Len(data'.income) = Len(data.income) + 1
              /\ IsPrefix(data.income, data'.income)
              /\ data'.expenses = data.expenses
        /\ call'.op = "add_expense" =>
              /\ Len(data'.expenses) = Len(data.expenses) + 1
              /\ IsPrefix(data.expenses, data'.expenses)
              /\ data'.income = data.income
        /\ call'.op \in {"get_summary", "get_spending_advice", "get_transactions"} =>
              data' = data ]_vars

C7_Witness ==
    /\ call.op = "get_transactions"
    /\ Len(data.income) = 2
    /\ Len(data.expenses) = 1
    /\ StrGT(data.income[2].date, data.income[1].date)

\* C8: after every add_income or add_expense call that returns success the
\* file holds the whole in-memory ledger, both sequences in insertion order:
\* loading it gives the same transactions.
C8_WriteThrough ==
    (call.op \in {"add_income", "add_expense"} /\ ret.status = "ok") =>
        /\ file.kind = "json"
        /\ _load_data(file).raised = None
        /\ _load_data(file).data = data

C8_Witness ==
    /\ call.op = "add_income" /\ ret.status = "ok"
    /\ Len(data.income) = 2
    /\ Len(data.expenses) = 1
    /\ file.kind = "json"

\* C9: loading a stored state that is unreadable or unparseable surfaces no
\* error: construction succeeds with empty income and expenses sequences.
C9_LoadNeverFails ==
    (call.op = "__init__" /\ file.kind \in {"unreadable", "malformed"}) =>
        /\ ret.status = "ok"
        /\ live
        /\ data = EmptyLedger

\* C10: when the persist step of add_income or add_expense fails, the call
\* raises the error instead of returning success, and the write is not tried
\* again: the file is not left holding the ledger.
C10_WriteFailureRaises ==
    (call.op \in {"add_income", "add_expense"} /\ call.disk # "ok") =>
        /\ ret.status = "raise"
        /\ ret.value = "OSError"
        /\ ~(file.kind = "json" /\ JsonLoad(file.doc) = data)

C10_Witness ==
    /\ call.op = "add_expense" /\ call.disk = "write_fails"
    /\ ret.status = "raise"
    /\ file.kind = "malformed"
    /\ Len(data.expenses) = 2

\* C11: a call of add_expense with a category that is not in self.categories
\* puts that category into the set and the category causes no error (the call
\* returns True whenever its save succeeds); and no call on a BudgetManager
\* takes a category out of its set.
C11_CategoriesGrow ==
    [][ call'.op # "__init__" =>
          /\ categories \subseteq categories'
          /\ call'.op = "add_expense" =>
                /\ categories' = categories \cup {call'.category}
                /\ call'.disk = "ok" => ret'.status = "ok"
          /\ call'.op # "add_expense" => categories' = categories ]_vars

C11_Witness ==
    /\ call.op = "add_expense" /\ call.category = "Pets"
    /\ ret.status = "ok"
    /\ categories = DefaultCategories \cup {"Pets", "Travel"}

\* C15: in every state of a BudgetManager, the state right after it is
\* constructed from a file saved earlier included, the category of every
\* expense of the ledger is in self.categories.
C15_ExpenseCategoriesKnown ==
    live => \A i \in 1..Len(data.expenses) :
                data.expenses[i].category \in categories

\* C12: savings goals are never updated or removed: once a goal is stored
\* under a name, the fields stored under that name stay the same after every
\* later operation.
C12_GoalsNeverChange ==
    [][ \A k \in Keys(planner.savings_goals) :
          /\ k \in Keys(planner'.savings_goals)
          /\ GetItem(planner'.savings_goals, k) = GetItem(planner.savings_goals, k)
      ]_vars

\* C12 as amended: savings goals are never removed, and the fields stored
\* under a name stay the same after every operation except add_savings_goal
\* given that name again with values it accepts.
C12_GoalsChangeOnlyWhenTypedAgain ==
    [][ \A k \in Keys(planner.savings_goals) :
          /\ k \in Keys(planner'.savings_goals)
          /\ GetItem(planner'.savings_goals, k) # GetItem(planner.savings_goals, k) =>
                /\ call'.op = "add_savings_goal"
                /\ call'.goal_name = k
                /\ NotANumber \notin {call'.target_amount, call'.years}
                /\ call'.target_amount[1] > 0 /\ call'.years[1] > 0
      ]_vars

C12_Witness ==
    /\ call.op = "add_savings_goal" /\ call.goal_name = Car
    /\ ret = Returned("stored")
    /\ Keys(planner.savings_goals) = {Car, Boat}
    /\ planner.savings_goals[1].key = Car
    /\ GetItem(planner.savings_goals, Car).target_amount = Big
    /\ GetItem(planner.savings_goals, Car).annual_rate = 3 * One
    /\ planner.income = One
    /\ planner.expenses # <<>>

\* the call typed a goal: a name other than 'done', a target_amount above 0,
\* a number of years above 0 and a rate
CreatesGoal(c) ==
    /\ c.op = "add_savings_goal"
    /\ Lower(c.goal_name) # Done
    /\ NotANumber \notin {c.target_amount, c.years, c.annual_rate}
    /\ ToFloat(c.target_amount[1]) > 0
    /\ c.years[1] > 0

\* C13: creating a goal under a name that is already stored raises no error
\* and replaces the stored goal: afterwards exactly one goal is stored under
\* that name, it holds the new target_amount, years and annual_rate and the
\* monthly_investment_required computed from them, and as many goals are
\* stored as before.
C13_OverwriteReplaces ==
    [][ (CreatesGoal(call') /\ call'.goal_name \in Keys(planner.savings_goals)) =>
          LET goals == planner'.savings_goals
              target == ToFloat(call'.target_amount[1])
              rate == ToFloat(call'.annual_rate[1])
              monthly == calculate_required_monthly_investment(
                             target, call'.years[1], rate)
          IN  /\ ret'.status = "ok"
              /\ Len(goals) = Len(planner.savings_goals)
              /\ Cardinality({i \in 1..Len(goals) : goals[i].key = call'.goal_name}) = 1
              /\ monthly.raised = None
              /\ GetItem(goals, call'.goal_name) =
                    [target_amount |-> target, years |-> call'.years[1],
                     annual_rate |-> rate,
                     monthly_investment_required |-> monthly.value]
      ]_vars

\* the part of C13 that holds: when add_savings_goal returns from creating a
\* goal under a stored name, that name holds the new goal alone and as many
\* goals are stored as before
OverwriteWhenReturned ==
    [][ (/\ CreatesGoal(call') /\ ret'.status = "ok"
         /\ call'.goal_name \in Keys(planner.savings_goals)) =>
          LET goals == planner'.savings_goals
              target == ToFloat(call'.target_amount[1])
              rate == ToFloat(call'.annual_rate[1])
              monthly == calculate_required_monthly_investment(
                             target, call'.years[1], rate)
          IN  /\ Len(goals) = Len(planner.savings_goals)
              /\ Cardinality({i \in 1..Len(goals) : goals[i].key = call'.goal_name}) = 1
              /\ GetItem(goals, call'.goal_name) =
                    [target_amount |-> target, years |-> call'.years[1],
                     annual_rate |-> rate,
                     monthly_investment_required |-> monthly.value]
      ]_vars

\* C14: calculate_investment_growth(P, r, Y) returns exactly P whenever r is 0
\* (for every Y >= 0) and whenever Y is 0 (for every r).
C14_NoGrowth ==
    (/\ call.op = "investment_projection" /\ call.parsed
     /\ (call.annual_rate = 0 \/ call.years = 0)) =>
        /\ ret.status = "ok"
        /\ ret.value = call.principal

C14_Witness ==
    /\ call.op = "investment_projection" /\ call.parsed
    /\ call.annual_rate = 0 /\ call.years = MaxYears
    /\ call.principal = FRound(One + 1)
    /\ ret = Returned(call.principal)

====
